---- MODULE Spec2Model ----
(***************************************************************************)
(* fireflycore/go-mongo: the command monitor installed by New (mongo.go)    *)
(* and the trace logger behind it (internal/logger.go).                     *)
(*                                                                          *)
(* The driver calls three callbacks.  Started stores the command text of a  *)
(* request id in the sync.Map stmts.  Succeeded and Failed look the text    *)
(* up (stmts.Load), remove it (stmts.Delete) and call logger.Trace, which   *)
(* classifies the event and writes a console line and/or hands a JSON       *)
(* record to the configured callback.  The three sync.Map operations are    *)
(* each atomic; a terminal handler is a sequence of them, so handlers of    *)
(* different goroutines interleave between Load, Delete and Trace.          *)
(*                                                                          *)
(* Beside the monitor: the setters of mongo.Conf (conf.go), the two query   *)
(* helpers WithPagination and WithTimerRange, and the hooks of Table        *)
(* (table.go), each under a specification of its own.                       *)
(***************************************************************************)
EXTENDS Integers, Sequences, FiniteSets, Bags, TLC

\* ------------------------------------------------------------------ bounds
MaxId == 2            \* request identifiers 1..MaxId
MaxInFlight == 2      \* terminal handlers that may run concurrently
MaxEvents == 4        \* driver events delivered in one run (Spec)
MaxLoggerEvents == 2  \* driver events delivered in one run (SpecLogger)
MaxEnrichEvents == 2  \* driver events delivered in one run (SpecEnrich)
MaxConfEvents == 2    \* driver events delivered in one run (SpecConf)
MaxClock == 4         \* the wall clock runs from 1 to MaxClock (SpecTable)

Ids == 1..MaxId

\* e.Command.String() is never the empty string (an empty document is "{}").
Texts == {"find{}", "update{}"}
NoEntry == "<absent>"

\* e.Failure: the driver's failure text; it is a plain string and may be empty.
Failures == {"", "duplicate key"}

\* ------------------------------------------------------- logger constants
Silent == 1
Error == 2
Warn == 3
Info == 4
LogLevels == {Silent, Error, Warn, Info}
Suppressed == 0       \* no branch of Trace taken (not a LogLevel)

LogTypeMongo == 6
ResultSuccess == "success"

Millisecond == 1000000                    \* time.Duration counts nanoseconds
DefaultSlowThreshold == 200 * Millisecond \* New: SlowThreshold
DefaultLogLevel == Info                   \* New: LogLevel
Databases == {"demo"}                     \* c.Database

\* e.Duration of a terminal event: below, equal to, one nanosecond above 200ms.
Elapsed == {50 * Millisecond, 200 * Millisecond, 200 * Millisecond + 1}
\* Conf.SlowThreshold is a signed time.Duration.
Thresholds == {0 - Millisecond, 0, DefaultSlowThreshold}

\* ------------------------------------------------------ request metadata
HeaderPrefix == "x-firefly-"
TraceId == HeaderPrefix \o "trace-id"
UserId == HeaderPrefix \o "user-id"
AppId == HeaderPrefix \o "app-id"
MDKeys == {TraceId, UserId, AppId}

\* The values metadata.MD holds for one key: a missing key reads as the nil
\* slice, a present key has one value or more.
MDValues == {<<>>, <<"a">>, <<"b", "a">>}

\* A request context: whether it carries incoming metadata, and the metadata.
Contexts ==
    {x \in [carrier : BOOLEAN, md : [MDKeys -> MDValues]] :
        ~x.carrier => \A k \in MDKeys : x.md[k] = <<>>}

\* context.Background(): no metadata carrier.
NoMetadata == [carrier |-> FALSE, md |-> [k \in MDKeys |-> <<>>]]

\* A key the record's map does not hold.
Omitted == "<omitted>"

\* ------------------------------------------------------- 64-bit integers
\* A uint64 is kept as four 16-bit limbs, least significant first; an int64
\* is kept as its sign and the limbs of its magnitude.
LimbBase == 65536
SignBit == 32768

\* The uint64 of a number below LimbBase.
U64(n) == <<n, 0, 0, 0>>

MaxUint64 == <<LimbBase - 1, LimbBase - 1, LimbBase - 1, LimbBase - 1>>

\* x > n, for n below LimbBase.
GreaterThan(x, n) == x[1] > n \/ x[2] # 0 \/ x[3] # 0 \/ x[4] # 0

\* x - 1 in uint64 arithmetic (0 - 1 wraps to the largest value).
Decrement(x) ==
    IF x[1] > 0 THEN <<x[1] - 1, x[2], x[3], x[4]>>
    ELSE IF x[2] > 0 THEN <<LimbBase - 1, x[2] - 1, x[3], x[4]>>
    ELSE IF x[3] > 0 THEN <<LimbBase - 1, LimbBase - 1, x[3] - 1, x[4]>>
    ELSE IF x[4] > 0 THEN <<LimbBase - 1, LimbBase - 1, LimbBase - 1, x[4] - 1>>
    ELSE MaxUint64

\* The limbs of x * n and the carry out of the top limb, n below LimbBase.
Product(x, n) ==
    LET p1 == x[1] * n
        p2 == x[2] * n + (p1 \div LimbBase)
        p3 == x[3] * n + (p2 \div LimbBase)
        p4 == x[4] * n + (p3 \div LimbBase)
    IN  [limbs |-> <<p1 % LimbBase, p2 % LimbBase, p3 % LimbBase,
                     p4 % LimbBase>>,
         carry |-> p4 \div LimbBase]

\* x * y in uint64 arithmetic (the carry is lost), for y below LimbBase.
Multiply(x, y) == Product(x, y[1]).limbs

\* x + 1 in uint64 arithmetic (the largest value wraps to 0).
Increment(x) ==
    IF x[1] < LimbBase - 1 THEN <<x[1] + 1, x[2], x[3], x[4]>>
    ELSE IF x[2] < LimbBase - 1 THEN <<0, x[2] + 1, x[3], x[4]>>
    ELSE IF x[3] < LimbBase - 1 THEN <<0, 0, x[3] + 1, x[4]>>
    ELSE IF x[4] < LimbBase - 1 THEN <<0, 0, 0, x[4] + 1>>
    ELSE U64(0)

\* 2^64 - x for x > 0: every bit inverted, plus one.
Negate(x) ==
    Increment(<<LimbBase - 1 - x[1], LimbBase - 1 - x[2], LimbBase - 1 - x[3],
                LimbBase - 1 - x[4]>>)

\* int64(x): the 64 bits of x read in two's complement, x - 2^64 when the
\* top bit is set.
Int64(x) ==
    IF x[4] >= SignBit THEN [neg |-> TRUE, mag |-> Negate(x)]
    ELSE [neg |-> FALSE, mag |-> x]

\* ------------------------------------------------------ helper arguments
\* page and size of WithPagination: small values, the values around the
\* corrections, and the largest ones.
Pages ==
    {U64(0), U64(1), U64(2), U64(3), <<0, 0, 1, 0>>, <<0, 0, 0, SignBit - 1>>,
     <<1, 0, 0, SignBit>>, MaxUint64}

Sizes ==
    {U64(0), U64(1), U64(4), U64(5), U64(20), U64(100), U64(101), MaxUint64}

\* *int64 fields of options.FindOptions that have not been set.
Nil == [neg |-> FALSE, mag |-> <<>>]

\* start and end of WithTimerRange: empty, in time.DateTime format, not in it.
Stamps ==
    {"", "2026-01-01 00:00:00", "2026-01-02 00:00:00", "2026-01-02",
     "2026-01-02T00:00:00Z"}

\* The zero bson.E, as in the unused capacity of a slice.
ZeroE == [Key |-> "", Value |-> <<>>]

DeletedAtNil == [Key |-> "deleted_at", Value |-> <<>>]

\* The caller's bson.D, a slice: its backing array (as long as the capacity)
\* and its length.  bson.D{}, a one-element filter, and both with capacity
\* to spare.
Filters ==
    {[arr |-> <<>>, len |-> 0],
     [arr |-> <<ZeroE>>, len |-> 0],
     [arr |-> <<DeletedAtNil>>, len |-> 1],
     [arr |-> <<DeletedAtNil, ZeroE>>, len |-> 1]}

\* ------------------------------------------------------------------ Table
\* A time.Time: its instant and its location.
ZeroTime == [instant |-> 0, loc |-> "UTC"]

\* The strings NewUUIDv7 returns.
Uuids == {"0190a", "0190b"}

\* var t Table
ZeroTable ==
    [Id |-> "", CreatedAt |-> ZeroTime, UpdatedAt |-> ZeroTime,
     DeletedAt |-> <<>>]

VARIABLES
    t,          \* a Table: Id, CreatedAt, UpdatedAt, DeletedAt (<<>> for nil)
    now,        \* the wall clock time.Now reads
    hook,       \* history: the hook of t the latest step called ("none": none)
    incoming,   \* the request context the application's calls run under
    c,          \* the caller's mongo.Conf: Database, loggerConsole and whether
                \* loggerHandle is non-nil
    passed,     \* the internal.Conf whose address was passed to NewLogger
    page,       \* WithPagination: the argument page
    size,       \* WithPagination: the argument size
    option,     \* WithPagination: the caller's *options.FindOptions (Limit, Skip)
    start,      \* WithTimerRange: the argument start
    end,        \* WithTimerRange: the argument end
    filter,     \* WithTimerRange: the caller's bson.D
    callee,     \* WithTimerRange: whether it has returned, and its parameter
                \* option, a copy of the caller's slice header
    conf,       \* the logger's embedded Conf copy and whether handle is non-nil
    stmts,      \* sync.Map: request id -> command text, NoEntry when absent
    running,    \* the terminal callbacks in progress, a bag of records: kind
                \* ("Succeeded"/"Failed"), rid (e.RequestID), smt (the local
                \* smt) and pc (the statement to run next: "delete", "trace")
    remaining,  \* driver events still to be delivered
    starts,     \* history, per id: start-events processed (2 = two or more)
    terms,      \* history, per id: terminal events begun (2 = two or more)
    early,      \* history, per id: a terminal event began before any start
    sent,       \* history, per id: command text of the latest start-event
    taken,      \* history, per id: handlers that loaded the entry now stored
    last,       \* the Trace call made by the latest step (NoTrace: none), with
                \* its inputs and outputs
    traced,     \* history: Trace calls made
    correlated, \* history: Trace calls made with a non-empty command text
    console,    \* lines written to stdout
    handled     \* invocations of the structured callback

vars == <<t, now, hook,
          incoming, c, passed, page, size, option, start, end, filter, callee,
          conf, stmts, running, remaining, starts, terms, early, sent, taken,
          last, traced, correlated, console, handled>>

\* ---------------------------------------------------------------- sync.Map
\* Variant: one shared slot instead of one entry per key.
StoreUnkeyed(m, k, v) == [i \in DOMAIN m |-> v]

\* Variant: an entry already stored for the key is kept.
StoreIfAbsent(m, k, v) == IF m[k] = NoEntry THEN [m EXCEPT ![k] = v] ELSE m

\* stmts.Store(k, v), stmts.Load(k), stmts.Delete(k): each one atomic.
Store(m, k, v) == [m EXCEPT ![k] = v]

Load(m, k) == [v |-> m[k], ok |-> m[k] # NoEntry]

Delete(m, k) == [m EXCEPT ![k] = NoEntry]

\* ------------------------------------------------------------------ logger
\* NewLogger copies *conf into the logger (Conf: *conf) and keeps handle.
NewLogger(cf, handle) ==
    [Console |-> cf.Console, SlowThreshold |-> cf.SlowThreshold,
     Colorful |-> cf.Colorful, Database |-> cf.Database,
     LogLevel |-> cf.LogLevel, handle |-> handle]

\* Variant: the duration reported in milliseconds.
MicrosecondsAsMillis(d) == d \div 1000000

\* time.Duration.Microseconds(): integer division of the nanosecond count.
Microseconds(d) == d \div 1000

\* Variant: the error case is looked at before, and without, the level.
ClassifyErrorUngated(l, elapsed, err) ==
    IF err # "" THEN Error
    ELSE IF l.LogLevel <= Silent THEN Suppressed
    ELSE IF elapsed > l.SlowThreshold /\ l.SlowThreshold # 0 /\ l.LogLevel >= Warn
         THEN Warn
    ELSE IF l.LogLevel >= Info THEN Info
    ELSE Suppressed

\* Variant: the slow case taken at level Warn only.
ClassifyWarnOnlyAtWarn(l, elapsed, err) ==
    IF l.LogLevel <= Silent THEN Suppressed
    ELSE IF err # "" /\ l.LogLevel >= Error THEN Error
    ELSE IF elapsed > l.SlowThreshold /\ l.SlowThreshold # 0 /\ l.LogLevel = Warn
         THEN Warn
    ELSE IF l.LogLevel >= Info THEN Info
    ELSE Suppressed

\* Variant: the error case is taken without looking at the failure text.
ClassifyErrorWithoutText(l, elapsed, err) ==
    IF l.LogLevel <= Silent THEN Suppressed
    ELSE IF l.LogLevel >= Error THEN Error
    ELSE Suppressed

\* The branch of Trace's switch that is taken, Suppressed when none is.
Classify(l, elapsed, err) ==
    IF l.LogLevel <= Silent THEN Suppressed
    ELSE IF err # "" /\ l.LogLevel >= Error THEN Error
    ELSE IF elapsed > l.SlowThreshold /\ l.SlowThreshold # 0 /\ l.LogLevel >= Warn
         THEN Warn
    ELSE IF l.LogLevel >= Info THEN Info
    ELSE Suppressed

\* time.Duration's %v rendering, for the thresholds of the model.
DurationString(d) ==
    IF d = 0 THEN "0s"
    ELSE IF d = DefaultSlowThreshold THEN "200ms"
    ELSE IF d = 0 - Millisecond THEN "-1ms"
    ELSE "?"

\* fmt.Sprintf("SLOW SQL >= %v", l.SlowThreshold)
SlowLog(l) == "SLOW SQL >= " \o DurationString(l.SlowThreshold)

\* metadata.FromIncomingContext(ctx): the nil MD when ctx has no carrier.
FromIncomingContext(ctx) ==
    IF ctx.carrier THEN ctx.md ELSE [k \in MDKeys |-> <<>>]

\* md.Get(k)
Get(md, k) == md[k]

\* Variant: the last value of the key is taken.
MetaValueLast(gd) == IF Len(gd) # 0 THEN gd[Len(gd)] ELSE Omitted

\* if gd := md.Get(key); len(gd) != 0 { logMap[...] = gd[0] }
MetaValue(gd) == IF Len(gd) # 0 THEN gd[1] ELSE Omitted

\* handleLog: nothing when handle is nil, else one call with the record.
\* json.Marshal of a map of strings and integers does not fail.
handleLog(l, ctx, level, text, result, elapsed) ==
    LET md == FromIncomingContext(ctx) IN
    IF ~l.handle THEN <<>>
    ELSE << [Database  |-> l.Database,
             Statement |-> text,
             Result    |-> result,
             Duration  |-> Microseconds(elapsed),
             Level     |-> level,
             Type      |-> LogTypeMongo,
             trace_id  |-> MetaValue(Get(md, TraceId)),
             user_id   |-> MetaValue(Get(md, UserId)),
             invoke_app_id |-> MetaValue(Get(md, AppId))] >>

\* Variant: the line is printed whatever l.Console says.
ConsoleLineAlways(l, label, id, elapsed, msg, text) ==
    << [label |-> label, Database |-> l.Database, RequestId |-> id,
        Duration |-> elapsed, msg |-> msg, smt |-> text] >>

\* fmt.Printf of one of the three templates, when l.Console.
ConsoleLine(l, label, id, elapsed, msg, text) ==
    IF ~l.Console THEN <<>>
    ELSE << [label |-> label, Database |-> l.Database, RequestId |-> id,
             Duration |-> elapsed, msg |-> msg, smt |-> text] >>

\* logger.Trace: the lines it prints and the records it hands to handle.
Trace(l, ctx, id, elapsed, text, err) ==
    LET level == Classify(l, elapsed, err) IN
    IF level = Error THEN
        [level |-> level,
         lines |-> ConsoleLine(l, "error", id, elapsed, err, text),
         records |-> handleLog(l, ctx, Error, text, err, elapsed)]
    ELSE IF level = Warn THEN
        [level |-> level,
         lines |-> ConsoleLine(l, "warn", id, elapsed, SlowLog(l), text),
         records |-> handleLog(l, ctx, Warn, text, SlowLog(l), elapsed)]
    ELSE IF level = Info THEN
        [level |-> level,
         lines |-> ConsoleLine(l, "info", id, elapsed, "", text),
         records |-> handleLog(l, ctx, Info, text, ResultSuccess, elapsed)]
    ELSE [level |-> Suppressed, lines |-> <<>>, records |-> <<>>]


\* --------------------------------------------------------------- callbacks
Bump(n) == IF n < 2 THEN n + 1 ELSE 2

NoTrace == [id |-> 0, kind |-> "none", smt |-> "", err |-> "", elapsed |-> 0,
            level |-> Suppressed, lines |-> <<>>, records |-> <<>>]

Handlers == BagToSet(running)

\* Started: stmts.Store(e.RequestID, e.Command.String())
Started(id, cmd) ==
    /\ remaining > 0
    /\ remaining' = remaining - 1
    /\ stmts' = Store(stmts, id, cmd)
    /\ starts' = [starts EXCEPT ![id] = Bump(@)]
    /\ sent' = [sent EXCEPT ![id] = cmd]
    /\ taken' = [taken EXCEPT ![id] = 0]
    /\ last' = NoTrace
    /\ UNCHANGED <<t, now, hook,
                   incoming, c, passed, page, size, option, start, end, filter,
                   callee, conf, running, terms, early, traced, correlated, console,
                   handled>>

\* Variant: the loaded value is used without looking at ok.
LoadedTextUnchecked(r) == r.v

\* var smt string; if v, ok := stmts.Load(id); ok { smt, _ = v.(string) ... }
LoadedText(r) == IF r.ok THEN r.v ELSE ""

\* Variant: the handler goes on to Trace without the Delete.
AfterLoadNoDelete(r) == "trace"

\* The statement that follows the Load: the Delete inside the if, else Trace.
AfterLoad(r) == IF r.ok THEN "delete" ELSE "trace"

\* A terminal callback is invoked for id on a goroutine of its own and
\* performs its Load.
HandlerLoad(id, k) ==
    LET r == Load(stmts, id)
        h == [kind |-> k, rid |-> id, smt |-> LoadedText(r), pc |-> AfterLoad(r)]
    IN
    /\ remaining > 0
    /\ BagCardinality(running) < MaxInFlight
    /\ remaining' = remaining - 1
    /\ running' = running (+) SetToBag({h})
    /\ terms' = [terms EXCEPT ![id] = Bump(@)]
    /\ early' = [early EXCEPT ![id] = @ \/ starts[id] = 0]
    /\ taken' = [taken EXCEPT ![id] = IF r.ok THEN Bump(@) ELSE @]
    /\ last' = NoTrace
    /\ UNCHANGED <<t, now, hook,
                   incoming, c, passed, page, size, option, start, end, filter,
                   callee, conf, stmts, starts, sent, traced, correlated, console,
                   handled>>

\* stmts.Delete(e.RequestID)
HandlerDelete(h, k) ==
    /\ h.pc = "delete"
    /\ h.kind = k
    /\ stmts' = Delete(stmts, h.rid)
    /\ running' = (running (-) SetToBag({h})) (+) SetToBag({[h EXCEPT !.pc = "trace"]})
    /\ taken' = [taken EXCEPT ![h.rid] = 0]
    /\ last' = NoTrace
    /\ UNCHANGED <<t, now, hook,
                   incoming, c, passed, page, size, option, start, end, filter,
                   callee, conf, remaining, starts, terms, early, sent, traced,
                   correlated, console, handled>>

\* Variant: the logger keeps the *Conf it was given instead of a copy.
LoggerConfByPointer ==
    [Console |-> passed.Console, SlowThreshold |-> passed.SlowThreshold,
     Colorful |-> passed.Colorful, Database |-> passed.Database,
     LogLevel |-> passed.LogLevel, handle |-> conf.handle]

\* The receiver l of Trace: the logger's own Conf copy and handle.
LoggerConf == conf

\* logger.Trace(ctx, e.RequestID, e.Duration, smt, err), then the callback returns.
HandlerTrace(h, k, ctx, elapsed, err) ==
    LET out == Trace(LoggerConf, ctx, h.rid, elapsed, h.smt, err) IN
    /\ h.pc = "trace"
    /\ h.kind = k
    /\ last' = [id |-> h.rid, kind |-> k, smt |-> h.smt, err |-> err,
                elapsed |-> elapsed, level |-> out.level, lines |-> out.lines,
                records |-> out.records]
    /\ traced' = traced + 1
    /\ correlated' = IF h.smt # "" THEN correlated + 1 ELSE correlated
    /\ console' = console + Len(out.lines)
    /\ handled' = handled + Len(out.records)
    /\ running' = running (-) SetToBag({h})
    /\ UNCHANGED <<t, now, hook,
                   incoming, c, passed, page, size, option, start, end, filter,
                   callee, conf, stmts, remaining, starts, terms, early, sent, taken>>

\* Succeeded: Load, Delete, Trace with an empty err.
SucceededLoad(id) == HandlerLoad(id, "Succeeded")

SucceededDelete(h) == HandlerDelete(h, "Succeeded")

SucceededTrace(h, ctx, elapsed) ==
    HandlerTrace(h, "Succeeded", ctx, elapsed, "")

\* Failed: Load, Delete, Trace with e.Failure.
FailedLoad(id) == HandlerLoad(id, "Failed")

FailedDelete(h) == HandlerDelete(h, "Failed")

FailedTrace(h, ctx, elapsed, failure) ==
    HandlerTrace(h, "Failed", ctx, elapsed, failure)

\* ------------------------------------------------- configuration setters
\* func (c *Conf) WithLoggerConsole(state bool) { c.loggerConsole = state }
WithLoggerConsole(state) ==
    /\ c' = [c EXCEPT !.loggerConsole = state]
    /\ last' = NoTrace
    /\ UNCHANGED <<t, now, hook,
                   incoming, passed, page, size, option, start, end, filter,
                   callee, conf, stmts, running, remaining, starts, terms,
                   early, sent, taken, traced, correlated, console, handled>>

\* func (c *Conf) WithLoggerHandle(handle func(b []byte)) { c.loggerHandle = handle }
WithLoggerHandle(handle) ==
    /\ c' = [c EXCEPT !.loggerHandle = handle]
    /\ last' = NoTrace
    /\ UNCHANGED <<t, now, hook,
                   incoming, passed, page, size, option, start, end, filter,
                   callee, conf, stmts, running, remaining, starts, terms,
                   early, sent, taken, traced, correlated, console, handled>>

\* The holder of the pointer given to NewLogger assigns the Conf's fields.
MutateConf(cons, th, lv) ==
    /\ passed' = [passed EXCEPT !.Console = cons, !.SlowThreshold = th,
                                !.LogLevel = lv]
    /\ last' = NoTrace
    /\ UNCHANGED <<t, now, hook,
                   incoming, c, page, size, option, start, end, filter, callee,
                   conf, stmts, running, remaining, starts, terms,
                   early, sent, taken, traced, correlated, console, handled>>

\* ------------------------------------------------------------- pagination
\* if size == 0 { size = 5 }; if size > 100 { size = 100 }
EffectiveSize(sz) ==
    IF sz = U64(0) THEN U64(5)
    ELSE IF GreaterThan(sz, 100) THEN U64(100)
    ELSE sz

\* if page == 0 { page = 1 }
EffectivePage(pg) == IF pg = U64(0) THEN U64(1) ELSE pg

\* WithPagination(option, page, size)
WithPagination ==
    LET pg == EffectivePage(page)
        sz == EffectiveSize(size)
    IN
    /\ option.Limit = Nil
    /\ option' = [Limit |-> Int64(sz),
                  Skip  |-> Int64(Multiply(Decrement(pg), sz))]
    /\ UNCHANGED <<t, now, hook,
                   incoming, c, passed, page, size, start, end, filter, callee,
                   conf, stmts, running, remaining, starts, terms, early, sent,
                   taken, last, traced, correlated, console, handled>>

\* ------------------------------------------------------------- time range
\* time.Parse(time.DateTime, s) for the strings of Stamps.
ParseDateTime(s) ==
    IF s = "2026-01-01 00:00:00"
        THEN [ok |-> TRUE, t |-> [date |-> <<2026, 1, 1>>, clock |-> <<0, 0, 0>>]]
    ELSE IF s = "2026-01-02 00:00:00"
        THEN [ok |-> TRUE, t |-> [date |-> <<2026, 1, 2>>, clock |-> <<0, 0, 0>>]]
    ELSE [ok |-> FALSE, t |-> [date |-> <<1, 1, 1>>, clock |-> <<0, 0, 0>>]]

\* bson.E{Key: "created_at", Value: bson.D{{"$gte", startTime}, {"$lte", endTime}}}
CreatedAtRange(startTime, endTime) ==
    [Key |-> "created_at",
     Value |-> << [Key |-> "$gte", Value |-> startTime],
                  [Key |-> "$lte", Value |-> endTime] >>]

\* append(s, e) writes into the backing array when it has room.
InPlace(s) == s.len < Len(s.arr)

\* append(s, e): the slice it returns.
append(s, e) ==
    IF InPlace(s)
        THEN [arr |-> [s.arr EXCEPT ![s.len + 1] = e], len |-> s.len + 1]
        ELSE [arr |-> SubSeq(s.arr, 1, s.len) \o <<e>>, len |-> s.len + 1]

\* WithTimerRange(option, start, end): option is the callee's own copy of the
\* slice header; the append assigns to that copy, and writes the caller's
\* backing array only past the caller's length.
WithTimerRange ==
    LET s == ParseDateTime(start)
        e == ParseDateTime(end)
        appends == start # "" /\ end # "" /\ s.ok /\ e.ok
        new == append(callee.option, CreatedAtRange(s.t, e.t))
    IN
    /\ ~callee.returned
    /\ callee' = [returned |-> TRUE,
                  option |-> IF appends THEN new ELSE callee.option]
    /\ filter' = IF appends /\ InPlace(callee.option)
                     THEN [filter EXCEPT !.arr = new.arr]
                     ELSE filter
    /\ UNCHANGED <<t, now, hook,
                   incoming, c, passed, page, size, option, start, end, conf,
                   stmts, running, remaining, starts, terms, early, sent,
                   taken, last, traced, correlated, console, handled>>

\* ------------------------------------------------------------ Table hooks
\* time.Now(): the clock's instant, in the local location.
Now == [instant |-> now, loc |-> "Local"]

\* Time.UTC(): the same instant, with the location set to UTC.
UTC(tm) == [tm EXCEPT !.loc = "UTC"]

\* t.Id = NewUUIDv7(); timer := time.Now().UTC(); t.CreatedAt = timer;
\* t.UpdatedAt = timer; t.DeletedAt = nil
BeforeInsert(uuid) ==
    LET timer == UTC(Now) IN
    /\ t' = [Id |-> uuid, CreatedAt |-> timer, UpdatedAt |-> timer,
             DeletedAt |-> <<>>]
    /\ hook' = "BeforeInsert"
    /\ UNCHANGED <<now, incoming, c, passed, page, size, option, start, end,
                   filter, callee, conf, stmts, running, remaining, starts,
                   terms, early, sent, taken, last, traced, correlated,
                   console, handled>>

\* Variant: the update stamps both times.
BeforeUpdateStampsBoth ==
    /\ t' = [t EXCEPT !.CreatedAt = UTC(Now), !.UpdatedAt = UTC(Now)]
    /\ hook' = "BeforeUpdate"
    /\ UNCHANGED <<now, incoming, c, passed, page, size, option, start, end,
                   filter, callee, conf, stmts, running, remaining, starts,
                   terms, early, sent, taken, last, traced, correlated,
                   console, handled>>

\* t.UpdatedAt = time.Now().UTC()
BeforeUpdate ==
    /\ t' = [t EXCEPT !.UpdatedAt = UTC(Now)]
    /\ hook' = "BeforeUpdate"
    /\ UNCHANGED <<now, incoming, c, passed, page, size, option, start, end,
                   filter, callee, conf, stmts, running, remaining, starts,
                   terms, early, sent, taken, last, traced, correlated,
                   console, handled>>

\* The wall clock moves on (it is not set back).
Tick ==
    /\ now < MaxClock
    /\ now' = now + 1
    /\ hook' = "none"
    /\ UNCHANGED <<t, incoming, c, passed, page, size, option, start, end,
                   filter, callee, conf, stmts, running, remaining, starts,
                   terms, early, sent, taken, last, traced, correlated,
                   console, handled>>

\* ---------------------------------------------------------- specifications
InitMonitor ==
    /\ stmts = [i \in Ids |-> NoEntry]
    /\ running = EmptyBag
    /\ starts = [i \in Ids |-> 0]
    /\ terms = [i \in Ids |-> 0]
    /\ early = [i \in Ids |-> FALSE]
    /\ sent = [i \in Ids |-> NoEntry]
    /\ taken = [i \in Ids |-> 0]
    /\ last = NoTrace
    /\ traced = 0
    /\ correlated = 0
    /\ console = 0
    /\ handled = 0

\* New with c.Logger set: the logger is built from c.Database, c.loggerConsole
\* and c.loggerHandle, with the fixed threshold and level.
InitNew ==
    /\ c \in [Database : Databases, loggerConsole : BOOLEAN,
              loggerHandle : BOOLEAN]
    /\ passed = [Console |-> c.loggerConsole,
                 SlowThreshold |-> DefaultSlowThreshold,
                 Colorful |-> TRUE, Database |-> c.Database,
                 LogLevel |-> DefaultLogLevel]
    /\ conf = NewLogger(passed, c.loggerHandle)
    /\ InitMonitor

\* WithPagination is not in use.
InitNoPage ==
    /\ page = U64(1)
    /\ size = U64(20)
    /\ option = [Limit |-> Nil, Skip |-> Nil]

\* WithTimerRange is not in use.
InitNoRange ==
    /\ start = ""
    /\ end = ""
    /\ filter = [arr |-> <<>>, len |-> 0]
    /\ callee = [returned |-> FALSE, option |-> filter]

\* No Table is in use.
InitNoTable ==
    /\ t = ZeroTable
    /\ now = 1
    /\ hook = "none"

\* The helpers are not in use.
InitHelpers == InitNoPage /\ InitNoRange /\ InitNoTable

\* No client is in use: the state New gives, and no event to come.
InitIdle ==
    /\ c = [Database |-> "demo", loggerConsole |-> FALSE,
            loggerHandle |-> FALSE]
    /\ InitNew
    /\ incoming = NoMetadata
    /\ remaining = 0

\* A caller with fresh FindOptions and any page and size.
InitPage ==
    /\ InitIdle
    /\ InitNoRange
    /\ InitNoTable
    /\ page \in Pages
    /\ size \in Sizes
    /\ option = [Limit |-> Nil, Skip |-> Nil]

\* A caller with any filter, about to call WithTimerRange(filter, start, end).
InitRange ==
    /\ InitIdle
    /\ InitNoPage
    /\ InitNoTable
    /\ start \in Stamps
    /\ end \in Stamps
    /\ filter \in Filters
    /\ callee = [returned |-> FALSE, option |-> filter]

\* New with the console output and the callback both set, as the README sets
\* them; the application calls the driver with contexts that carry no
\* metadata.  (Every other configuration is InitLogger's and InitConf's.)
Init ==
    /\ c = [Database |-> "demo", loggerConsole |-> TRUE, loggerHandle |-> TRUE]
    /\ InitNew
    /\ InitHelpers
    /\ incoming = NoMetadata
    /\ remaining = MaxEvents

\* The application calls the driver under an incoming gRPC context, any one.
InitEnrich ==
    /\ InitNew
    /\ InitHelpers
    /\ incoming \in Contexts
    /\ remaining = MaxEnrichEvents

\* New, with the Conf and the internal Conf still in their holders' hands.
InitConf ==
    /\ InitNew
    /\ InitHelpers
    /\ incoming = NoMetadata
    /\ remaining = MaxConfEvents

\* NewLogger with any Conf.
InitLogger ==
    /\ passed \in [Console : BOOLEAN, SlowThreshold : Thresholds,
                   Colorful : {TRUE}, Database : Databases,
                   LogLevel : LogLevels]
    /\ \E h \in BOOLEAN :
         /\ c = [Database |-> passed.Database,
                 loggerConsole |-> passed.Console, loggerHandle |-> h]
         /\ conf = NewLogger(passed, h)
    /\ incoming = NoMetadata
    /\ InitHelpers
    /\ remaining = MaxLoggerEvents
    /\ InitMonitor

\* The callbacks treat request ids alike, so the driver's ids are taken into
\* use in increasing order: an id appears once every smaller id has appeared.
UsableIds ==
    {id \in Ids : \A j \in Ids : j < id => (starts[j] > 0 \/ terms[j] > 0)}

Next ==
    \/ \E id \in UsableIds, cmd \in Texts : Started(id, cmd)
    \/ \E id \in UsableIds : SucceededLoad(id)
    \/ \E h \in Handlers : SucceededDelete(h)
    \/ \E h \in Handlers, elapsed \in Elapsed :
         SucceededTrace(h, incoming, elapsed)
    \/ \E id \in UsableIds : FailedLoad(id)
    \/ \E h \in Handlers : FailedDelete(h)
    \/ \E h \in Handlers, elapsed \in Elapsed, failure \in Failures :
         FailedTrace(h, incoming, elapsed, failure)

\* The callbacks, and the holders of the two Conf values at work.
NextConf ==
    \/ Next
    \/ \E state \in BOOLEAN : WithLoggerConsole(state)
    \/ \E handle \in BOOLEAN : WithLoggerHandle(handle)
    \/ \E cons \in BOOLEAN, th \in {0, DefaultSlowThreshold},
          lv \in {Silent, DefaultLogLevel} :
         MutateConf(cons, th, lv)

Spec == Init /\ [][Next]_vars

SpecLogger == InitLogger /\ [][Next]_vars

SpecEnrich == InitEnrich /\ [][Next]_vars

SpecConf == InitConf /\ [][NextConf]_vars

NextPage == WithPagination

SpecPage == InitPage /\ [][NextPage]_vars

NextRange == WithTimerRange

SpecRange == InitRange /\ [][NextRange]_vars

\* A Table as declared, or as decoded from a document that was stamped at
\* earlier readings of the clock: created, then updated, and soft-deleted
\* (SoftDeleteById writes deleted_at) or not.
InitTable ==
    /\ InitIdle
    /\ InitNoPage
    /\ InitNoRange
    /\ now \in 1..MaxClock
    /\ hook = "none"
    /\ \/ t = ZeroTable
       \/ \E uuid \in Uuids, created \in 1..now :
          \E updated \in created..now :
          \E deleted \in {<<>>} \cup
                {<<[instant |-> d, loc |-> "UTC"]>> : d \in created..updated} :
            t = [Id |-> uuid,
                 CreatedAt |-> [instant |-> created, loc |-> "UTC"],
                 UpdatedAt |-> [instant |-> updated, loc |-> "UTC"],
                 DeletedAt |-> deleted]

NextTable ==
    \/ \E uuid \in Uuids : BeforeInsert(uuid)
    \/ BeforeUpdate
    \/ Tick

SpecTable == InitTable /\ [][NextTable]_vars


\* ------------------------------------------------------------------ claims
\* A terminal handler for id is between its Load and its return.
InFlight(id) == \E h \in Handlers : h.rid = id

\* The events of id so far are at most one start-event, processed before at
\* most one terminal event began.
Orderly(id) == starts[id] <= 1 /\ terms[id] <= 1 /\ ~early[id]

AllOrderly == \A id \in Ids : Orderly(id)

\* The terminal event of id has been processed to the end.
Terminated(id) == terms[id] = 1 /\ ~InFlight(id)

\* C1: when every identifier's start-event completes before its single
\* terminal event begins, each terminal handler holds, and passes to Trace,
\* exactly the text its identifier's start-event stored, and the N terminated
\* identifiers account for exactly N Trace calls, all with a non-empty text.
C1_TraceCarriesStartedText ==
    /\ \A id \in Ids : Orderly(id) =>
         /\ \A h \in Handlers : (h.rid = id) => h.smt = sent[id]
         /\ (last.id = id) => (last.smt = sent[id] /\ last.smt \in Texts)
    /\ AllOrderly =>
         /\ traced = Cardinality({id \in Ids : Terminated(id)})
         /\ correlated = traced

C1_Witness ==
    /\ AllOrderly
    /\ \A id \in Ids : starts[id] = 1 /\ Terminated(id)
    /\ sent[1] # sent[2]
    /\ traced = 2
    /\ correlated = 2

\* C2: of the terminal handlers that look up one stored entry, at most one
\* obtains its text.
C2_AtomicTakeAndRemove == \A id \in Ids : taken[id] <= 1

\* C3: an identifier that had one start-event and one terminal event, in
\* whatever order, holds no entry once both have been processed (nothing is
\* left that would remove it later).
C3_NoResidentEntry ==
    \A id \in Ids :
        (starts[id] = 1 /\ Terminated(id)) => stmts[id] = NoEntry

\* C4: for an identifier whose events are one start-event followed by at most
\* one terminal event, the table holds its entry (the started text) exactly
\* from the start-event until the terminal handler's removal, and the table
\* is empty once every started identifier has terminated.
C4_TableHoldsPendingOnly ==
    /\ \A id \in Ids : Orderly(id) =>
         /\ (stmts[id] # NoEntry) <=>
              (starts[id] = 1 /\
               (terms[id] = 0 \/ \E h \in Handlers : h.rid = id /\ h.pc = "delete"))
         /\ (stmts[id] # NoEntry) => stmts[id] = sent[id]
    /\ (AllOrderly /\ \A id \in Ids : starts[id] = 1 => Terminated(id)) =>
         \A id \in Ids : stmts[id] = NoEntry

C4_Witness ==
    /\ AllOrderly
    /\ starts[1] = 1 /\ Terminated(1) /\ stmts[1] = NoEntry
    /\ starts[2] = 1 /\ terms[2] = 0 /\ stmts[2] \in Texts

\* C5: a terminal handler whose Load misses leaves the table as it is, goes
\* on with the empty text, and makes its one Trace call with that empty text;
\* the call is classified from the elapsed time and the failure text as for
\* any other event, and its outputs are produced accordingly.
C5_MissStep ==
    \A h \in BagToSet(running') :
        (/\ BagCardinality(running') = BagCardinality(running) + 1
         /\ CopiesIn(h, running') > CopiesIn(h, running)
         /\ stmts[h.rid] = NoEntry) =>
            /\ h.pc = "trace"
            /\ h.smt = ""
            /\ stmts' = stmts
            /\ traced' = traced

C5_MissTrace ==
    \A h \in Handlers :
        (/\ BagCardinality(running') = BagCardinality(running) - 1
         /\ CopiesIn(h, running') < CopiesIn(h, running)
         /\ h.smt = "") =>
            /\ stmts' = stmts
            /\ traced' = traced + 1
            /\ last'.id = h.rid
            /\ last'.smt = ""
            /\ \A txt \in Texts :
                 last'.level =
                     Trace(conf, incoming, h.rid, last'.elapsed, txt,
                           last'.err).level
            /\ console' = console +
                 (IF last'.level # Suppressed /\ conf.Console THEN 1 ELSE 0)
            /\ handled' = handled +
                 (IF last'.level # Suppressed /\ conf.handle THEN 1 ELSE 0)
            /\ \A i \in 1..Len(last'.records) : last'.records[i].Statement = ""

C5_MissIsTraced == [][C5_MissStep /\ C5_MissTrace]_vars

C5_Witness ==
    /\ starts[1] = 0
    /\ last.id = 1
    /\ last.kind = "Succeeded"
    /\ last.smt = ""
    /\ last.level = Info
    /\ Len(last.records) = 1
    /\ handled = 1
    /\ stmts[1] = NoEntry


\* The first-match decision table of the classifier, as the design states it.
DecisionTable(level, err, threshold, elapsed) ==
    IF level = Silent THEN Suppressed
    ELSE IF err # "" THEN Error
    ELSE IF threshold > 0 /\ elapsed > threshold /\ level >= Warn THEN Warn
    ELSE IF level = Info THEN Info
    ELSE Suppressed

C7_SilentEmitsNothing ==
    (conf.LogLevel = Silent) =>
        /\ console = 0
        /\ handled = 0
        /\ last.level = Suppressed
        /\ last.lines = <<>>
        /\ last.records = <<>>

C7_Witness ==
    /\ conf.LogLevel = Silent
    /\ conf.Console
    /\ conf.handle
    /\ traced = 2
    /\ last.kind = "Failed"
    /\ last.err # ""
    /\ last.elapsed > conf.SlowThreshold
    /\ conf.SlowThreshold > 0

\* C8: an event emitted with a classification under the configured level is
\* emitted with the same classification under every more verbose level, and a
\* classification is emitted only at its own level or a more verbose one
\* (Silent < Error < Warn < Info).
C8_LevelsAreMonotonic ==
    (traced > 0 /\ last.level # Suppressed) =>
        /\ last.level <= conf.LogLevel
        /\ \A lv \in LogLevels : lv > conf.LogLevel =>
             Trace([conf EXCEPT !.LogLevel = lv], incoming, last.id,
                   last.elapsed, last.smt, last.err).level = last.level

C8_Witness ==
    /\ traced > 0
    /\ conf.LogLevel = Warn
    /\ last.level = Warn
    /\ last.err = ""

\* C9: a Trace call that is not suppressed writes exactly one console line
\* iff Console is set and invokes the callback exactly once iff a callback is
\* configured; a suppressed call does neither; no other step of a terminal
\* handler and no start-event writes a line or invokes the callback.
C9_Step ==
    /\ (traced' = traced + 1) =>
         /\ console' = console +
              (IF last'.level # Suppressed /\ conf.Console THEN 1 ELSE 0)
         /\ handled' = handled +
              (IF last'.level # Suppressed /\ conf.handle THEN 1 ELSE 0)
         /\ Len(last'.lines) = console' - console
         /\ Len(last'.records) = handled' - handled
    /\ (traced' = traced) => (console' = console /\ handled' = handled)
    /\ traced' \in {traced, traced + 1}

C9_OutputsIndependent == [][C9_Step]_vars

C9_Witness ==
    /\ conf.Console
    /\ ~conf.handle
    /\ traced = 1
    /\ last.level = Error
    /\ console = 1
    /\ handled = 0
    /\ remaining = 0

\* C10: the record handed to the callback carries the text the handler passed
\* to Trace (the started text when the identifier's events are in order), the
\* database label, the classification as level, the elapsed time in whole
\* microseconds, and as result "success" for Info and the failure text for
\* Error.
C10_RecordFields ==
    \A i \in 1..Len(last.records) :
        LET r == last.records[i] IN
        /\ r.Statement = last.smt
        /\ Orderly(last.id) => r.Statement = sent[last.id]
        /\ r.Database = conf.Database
        /\ r.Level = last.level
        /\ r.Duration * 1000 <= last.elapsed
        /\ last.elapsed < (r.Duration + 1) * 1000
        /\ (last.level = Info) => r.Result = ResultSuccess
        /\ (last.level = Error) => r.Result = last.err

C10_Witness ==
    /\ last.id = 1
    /\ last.kind = "Succeeded"
    /\ last.elapsed = 50 * Millisecond
    /\ Orderly(1)
    /\ sent[1] = "find{}"
    /\ last.records = << [Database |-> "demo", Statement |-> "find{}",
                          Result |-> "success", Duration |-> 50000,
                          Level |-> Info, Type |-> LogTypeMongo,
                          trace_id |-> Omitted, user_id |-> Omitted,
                          invoke_app_id |-> Omitted] >>

\* The value the record is to carry for key k under the request context ctx.
FirstValueOf(ctx, k) ==
    IF ctx.carrier /\ ctx.md[k] # <<>> THEN Head(ctx.md[k]) ELSE Omitted

\* C11: whatever the request context (no metadata carrier, an empty carrier,
\* any subset of the three keys present), a Trace call that is not suppressed
\* hands its record to the configured callback, and the record's trace id,
\* user id and app id are each the first value of their own key when the key
\* has a value, and are left out otherwise.
C11_EnrichmentNeverSuppresses ==
    (last.kind # "none") =>
        /\ Len(last.records) =
             (IF conf.handle /\ last.level # Suppressed THEN 1 ELSE 0)
        /\ \A i \in 1..Len(last.records) :
             /\ last.records[i].trace_id = FirstValueOf(incoming, TraceId)
             /\ last.records[i].user_id = FirstValueOf(incoming, UserId)
             /\ last.records[i].invoke_app_id = FirstValueOf(incoming, AppId)
             /\ last.records[i].Statement = last.smt
             /\ last.records[i].Level = last.level

C11_Witness ==
    /\ last.kind = "Succeeded"
    /\ incoming.carrier
    /\ incoming.md[TraceId] = <<"b", "a">>
    /\ incoming.md[UserId] = <<>>
    /\ incoming.md[AppId] = <<"a">>
    /\ Len(last.records) = 1
    /\ last.records[1].trace_id = "b"
    /\ last.records[1].user_id = Omitted
    /\ last.records[1].invoke_app_id = "a"

\* C12: the configuration the logger works with is the one New built it with:
\* no step (WithLoggerConsole, WithLoggerHandle, an assignment to the Conf
\* passed to NewLogger, or a callback) changes it, and every Trace call is
\* classified and emitted under that console flag, callback, threshold, level
\* and database label.
C12_Step ==
    /\ LoggerConf' = LoggerConf
    /\ conf.SlowThreshold = DefaultSlowThreshold
    /\ conf.LogLevel = DefaultLogLevel
    /\ (last'.kind # "none") =>
         /\ last'.level = Classify(conf, last'.elapsed, last'.err)
         /\ Len(last'.lines) =
              (IF conf.Console /\ last'.level # Suppressed THEN 1 ELSE 0)
         /\ Len(last'.records) =
              (IF conf.handle /\ last'.level # Suppressed THEN 1 ELSE 0)
         /\ \A i \in 1..Len(last'.lines) :
              last'.lines[i].Database = conf.Database
         /\ \A i \in 1..Len(last'.records) :
              last'.records[i].Database = conf.Database

C12_ConfigurationFixed == [][C12_Step]_vars

C12_Witness ==
    /\ c.loggerConsole # conf.Console
    /\ c.loggerHandle # conf.handle
    /\ passed.Console # conf.Console
    /\ passed.LogLevel = Silent
    /\ passed.SlowThreshold = 0
    /\ last.kind = "Succeeded"
    /\ last.elapsed > DefaultSlowThreshold
    /\ last.level = Warn
    /\ Len(last.lines) = 1
    /\ Len(last.records) = 1

\* C13: once WithPagination has run, whatever page and size were, the limit
\* set on the options is at least 5 and at most 100; it is 5 for size 0 and
\* 100 for a size above 100.
C13_LimitInRange ==
    (option.Limit # Nil) =>
        /\ ~option.Limit.neg
        /\ GreaterThan(option.Limit.mag, 4)
        /\ ~GreaterThan(option.Limit.mag, 100)
        /\ (size = U64(0)) => option.Limit.mag = U64(5)
        /\ GreaterThan(size, 100) => option.Limit.mag = U64(100)

\* C20: once WithPagination has run, whatever page and size were, the skip
\* set on the options is not negative and is the product of max(page, 1) - 1
\* and the effective size, none of whose bits is lost by the 64-bit
\* multiplication or by the conversion to int64.
C20_SkipIsExactProduct ==
    (option.Skip # Nil) =>
        LET first == IF page = U64(0) THEN U64(1) ELSE page
            exact == Product(Decrement(first), EffectiveSize(size)[1])
        IN  /\ exact.carry = 0
            /\ ~option.Skip.neg
            /\ option.Skip.mag = exact.limbs
            /\ (page = U64(0)) => option.Skip.mag = U64(0)

\* C14: once WithTimerRange has returned from a call with a start and an end
\* that are both in time.DateTime format, the caller's filter ends with a
\* created_at condition whose $gte is the parsed start and whose $lte is the
\* parsed end.
C14_CallerFilterHasRange ==
    (/\ callee.returned
     /\ ParseDateTime(start).ok
     /\ ParseDateTime(end).ok) =>
        /\ filter.len > 0
        /\ filter.arr[filter.len] =
             CreatedAtRange(ParseDateTime(start).t, ParseDateTime(end).t)

\* C15: a start-event stores its text under its identifier whether or not an
\* entry is pending there, and touches no other identifier: the table holds
\* for each identifier at most the one entry with the latest text.  A terminal
\* handler whose Load then finds the entry takes that latest text, goes on to
\* its Delete, and makes its Trace call with the text it took.
C15_Step ==
    /\ \A id \in Ids :
         (/\ remaining' = remaining - 1
          /\ running' = running
          /\ (starts'[id] # starts[id] \/ sent'[id] # sent[id])) =>
            /\ stmts'[id] = sent'[id]
            /\ stmts'[id] \in Texts
            /\ \A j \in Ids \ {id} : stmts'[j] = stmts[j]
    /\ \A id \in Ids : stmts'[id] \in {NoEntry, sent'[id]}
    /\ \A h \in BagToSet(running') :
         (/\ BagCardinality(running') = BagCardinality(running) + 1
          /\ CopiesIn(h, running') > CopiesIn(h, running)
          /\ stmts[h.rid] # NoEntry) =>
            /\ h.smt = sent[h.rid]
            /\ h.pc = "delete"
    /\ \A h \in Handlers :
         (/\ BagCardinality(running') = BagCardinality(running) - 1
          /\ CopiesIn(h, running') < CopiesIn(h, running)) =>
            /\ last'.id = h.rid
            /\ last'.smt = h.smt

C15_StartOverwrites == [][C15_Step]_vars

C15_Witness ==
    /\ starts[1] = 2
    /\ terms[1] = 1
    /\ ~early[1]
    /\ taken[1] = 1
    /\ stmts[1] = sent[1]
    /\ \E h \in Handlers : h.rid = 1 /\ h.pc = "delete" /\ h.smt = sent[1]

\* C16: a Trace call classified Warn carries "SLOW OPERATION >= " followed by
\* the configured slow threshold, as the result of its record and as the
\* message of its console line.
C16_SlowOperationMessage ==
    (last.level = Warn) =>
        /\ \A i \in 1..Len(last.records) :
             last.records[i].Result =
                 "SLOW OPERATION >= " \o DurationString(conf.SlowThreshold)
        /\ \A i \in 1..Len(last.lines) :
             last.lines[i].msg =
                 "SLOW OPERATION >= " \o DurationString(conf.SlowThreshold)

\* C18: an entry that no terminal handler has looked up is not removed: the
\* Delete of a handler that looked up an earlier entry of the same identifier
\* leaves the entry a later start-event stored.
C18_Step ==
    \A id \in Ids :
        (stmts[id] # NoEntry /\ taken[id] = 0) => stmts'[id] # NoEntry

C18_EvictsOnlyOwnEntry == [][C18_Step]_vars

\* C19: a Trace call is classified Error only for a failure-event with a
\* non-empty failure text; a failure-event with the empty failure text is
\* classified and emitted as the success-event with the same identifier,
\* duration and text is: Warn when slow, else Info with result "success".
C19_EmptyFailureAsSuccess ==
    /\ (last.level = Error) => (last.kind = "Failed" /\ last.err # "")
    /\ (last.kind = "Failed" /\ last.err = "") =>
         LET succeeded == Trace(conf, incoming, last.id, last.elapsed,
                                last.smt, "")
         IN  /\ last.level = succeeded.level
             /\ last.lines = succeeded.lines
             /\ last.records = succeeded.records
             /\ last.level \in {Warn, Info, Suppressed}
             /\ (last.level = Warn) => last.elapsed > conf.SlowThreshold
             /\ (last.level = Info) =>
                  \A i \in 1..Len(last.records) :
                      last.records[i].Result = ResultSuccess

C19_Witness ==
    /\ last.kind = "Failed"
    /\ last.err = ""
    /\ last.level = Info
    /\ last.elapsed = 50 * Millisecond
    /\ Len(last.records) = 1
    /\ last.records[1].Result = ResultSuccess
    /\ Len(last.lines) = 1

\* C21: with a clock that is not set back, CreatedAt is never after UpdatedAt
\* whatever hooks have been called; BeforeInsert sets CreatedAt and UpdatedAt
\* to the one instant it read and clears DeletedAt; BeforeUpdate sets
\* UpdatedAt to the instant it read and leaves Id, CreatedAt and DeletedAt
\* as they were.
C21_Step ==
    /\ t'.CreatedAt.instant <= t'.UpdatedAt.instant
    /\ (hook' = "BeforeInsert") =>
         /\ t'.CreatedAt = t'.UpdatedAt
         /\ t'.CreatedAt.instant = now
         /\ t'.DeletedAt = <<>>
         /\ t'.Id \in Uuids
    /\ (hook' = "BeforeUpdate") =>
         /\ t'.UpdatedAt.instant = now
         /\ t'.Id = t.Id
         /\ t'.CreatedAt = t.CreatedAt
         /\ t'.DeletedAt = t.DeletedAt
    /\ (hook' = "none") => t' = t

C21_CreatedNotAfterUpdated == [][C21_Step]_vars

C21_Witness ==
    /\ hook = "BeforeUpdate"
    /\ t.Id \in Uuids
    /\ t.CreatedAt.instant = 2
    /\ t.UpdatedAt.instant = 3
    /\ t.DeletedAt = <<>>

====
